---- MODULE Spec2Model ----
(***************************************************************************)
(* Model of Issues_FS__Service_UI__Fast_API: the resolution of the three   *)
(* settings from the process environment and the instance, the ordered     *)
(* construction of the services in setup_services, the default-data steps, *)
(* the application of a configured root, the route layer and the static    *)
(* console redirect.                                                       *)
(*                                                                         *)
(* Strings are sequences of one-character strings, so that str.lower, the  *)
(* truth value of a string and the f-string concatenations are computed.   *)
(***************************************************************************)
EXTENDS Naturals, Sequences, FiniteSets

VARIABLES env,            \* os.environ: a function from variable names to strings
          ctor,           \* the keyword arguments the application object was built with
          run_in_memory,  \* self.run_in_memory
          issues_path,    \* self.issues_path
          root_path,      \* self.root_path
          fields,         \* the service attributes of the application object
          locals,         \* the local variables of setup_services
          pc,             \* position: [at |-> phase, idx |-> statement of setup_services]
          disk,           \* the file system: disk root path -> store contents
          heap,           \* contents of the Storage_FS__Memory object of this process
          current_root,   \* root_selection_service.current_root
          calls,          \* the collaborator calls made by this setup, in order
          routes,         \* the route layer: route group -> bound service
          static,         \* the static mount and the redirect handler's target
          config,         \* self.config: name, version, description
          response,       \* the response to the last request of '/console'
          runs            \* number of application starts so far

vars == <<env, ctor, run_in_memory, issues_path, root_path, fields, locals, pc,
          disk, heap, current_root, calls, routes, static, config, response, runs>>

\* ------------------------------------------------------------------ bounds

MaxRuns == 2

\* ------------------------------------------------------------------ strings

None == <<"None">>           \* Python's None: no string of characters equals it

S_empty  == <<>>
S_false  == <<"f","a","l","s","e">>
S_zero   == <<"0">>
S_no     == <<"n","o">>
S_off    == <<"o","f","f">>
S_FALSE  == <<"F","A","L","S","E">>
S_False  == <<"F","a","l","s","e">>
S_No     == <<"N","o">>
S_oFF    == <<"o","F","F">>
S_true   == <<"t","r","u","e">>
S_one    == <<"1">>
S_maybe  == <<"m","a","y","b","e">>
S_fals   == <<"f","a","l","s">>
S_sp_no  == <<" ","n","o">>

S_issues == <<".","i","s","s","u","e","s">>
S_tmp_x  == <<"/","t","m","p","/","x">>
S_data   == <<"d","a","t","a">>
S_proj   == <<"d","a","t","a","/","p","1">>
S_ghost  == <<"n","o","p","e">>
S_repo   == <<"G","i","t","R","e","p","o","-","1">>

UPPER == <<"A","B","C","D","E","F","G","H","I","J","K","L","M",
           "N","O","P","Q","R","S","T","U","V","W","X","Y","Z">>
LOWER == <<"a","b","c","d","e","f","g","h","i","j","k","l","m",
           "n","o","p","q","r","s","t","u","v","w","x","y","z">>

\* str.lower on one character
lower_char(c) ==
    IF \E i \in 1..Len(UPPER) : UPPER[i] = c
    THEN LOWER[CHOOSE i \in 1..Len(UPPER) : UPPER[i] = c]
    ELSE c

\* str.lower
lower(s) == [i \in 1..Len(s) |-> lower_char(s[i])]

\* the truth value of an Optional[str]: None and '' are false
truthy(s) == s # None /\ s # S_empty

\* ------------------------------------------------------------------ configuration

DEFAULT__ISSUES_PATH       == S_issues
ENV_VAR__ISSUES__IN_MEMORY == "ISSUES__IN_MEMORY"
ENV_VAR__ISSUES__PATH      == "ISSUES__PATH"
ENV_VAR__ISSUES__ROOT_PATH == "ISSUES__ROOT_PATH"

UI__CONSOLE__ROUTE__CONSOLE    == <<"c","o","n","s","o","l","e">>
UI__CONSOLE__ROUTE__START_PAGE == <<"i","n","d","e","x">>
UI__CONSOLE__MAJOR__VERSION    == <<"v","0","/","v","0",".","1">>
UI__CONSOLE__LATEST__VERSION   == <<"v","0",".","1",".","7">>

FALSY_TOKENS == {S_false, S_zero, S_no, S_off}

\* get_env(key, default): os.environ.get
get_env(key, default) == IF key \in DOMAIN env THEN env[key] ELSE default

\* resolve_storage_mode comparing the value as written, without lower()
resolve_storage_mode_case_sensitive ==
    LET env_value == get_env(ENV_VAR__ISSUES__IN_MEMORY, None)
    IN  IF env_value # None
        THEN env_value \notin FALSY_TOKENS
        ELSE run_in_memory

\* resolve_storage_mode treating an empty value as unset
resolve_storage_mode_empty_unset ==
    LET env_value == get_env(ENV_VAR__ISSUES__IN_MEMORY, None)
    IN  IF truthy(env_value)
        THEN lower(env_value) \notin FALSY_TOKENS
        ELSE run_in_memory

resolve_storage_mode ==
    LET env_value == get_env(ENV_VAR__ISSUES__IN_MEMORY, None)
    IN  IF env_value # None
        THEN lower(env_value) \notin FALSY_TOKENS
        ELSE run_in_memory

\* resolve_issues_path testing "is not None" instead of the truth value
resolve_issues_path_not_none ==
    LET env_value == get_env(ENV_VAR__ISSUES__PATH, None)
    IN  IF env_value # None THEN env_value ELSE issues_path

resolve_issues_path ==
    LET env_value == get_env(ENV_VAR__ISSUES__PATH, None)
    IN  IF truthy(env_value) THEN env_value ELSE issues_path

resolve_root_path ==
    LET env_value == get_env(ENV_VAR__ISSUES__ROOT_PATH, None)
    IN  IF truthy(env_value) THEN env_value
        ELSE IF truthy(root_path) THEN root_path
        ELSE S_empty

get_current_root_path == IF truthy(root_path) THEN root_path ELSE issues_path

\* ------------------------------------------------------------------ objects

Null == [cls |-> "NoneType"]      \* the None default of an object attribute

\* the contents of a storage: how many times the default types and the root
\* issue were written, and the other issue nodes present
EmptyStore == [default_types |-> 0, root_issues |-> 0, nodes |-> {}]
UsedStore  == [default_types |-> 1, root_issues |-> 1, nodes |-> {S_proj}]

Storage_FS__Memory == [cls |-> "Storage_FS__Memory"]
Storage_FS__Local_Disk(path) == [cls |-> "Storage_FS__Local_Disk", root_path |-> path]

\* the attributes of the class, in the order of their declaration
FIELDS == <<"memory_fs", "path_handler",
            "graph_repository", "link_service", "node_service", "type_service",
            "comments_service",
            "root_selection_service", "root_issue_service", "issue_children_service",
            "storage_status__service", "git_status__service", "types_status__service",
            "index_status__service", "server_status_service">>

FieldNames == {FIELDS[i] : i \in 1..Len(FIELDS)}

\* setup_services creating the root issue before the default types
setup_services_body_root_first ==
    <<"resolve", "select_backend",
      "memory_fs", "path_handler", "graph_repository",
      "type_service", "node_service", "link_service", "comments_service",
      "root_selection_service", "root_issue_service", "issue_children_service",
      "storage_status__service", "git_status__service", "types_status__service",
      "index_status__service", "server_status_service",
      "ensure_root_issue_exists", "initialize_default_types",
      "apply_root", "store_root_path">>

\* setup_services building the repository before the path handler
setup_services_body_repository_early ==
    <<"resolve", "select_backend",
      "memory_fs", "graph_repository", "path_handler",
      "type_service", "node_service", "link_service", "comments_service",
      "root_selection_service", "root_issue_service", "issue_children_service",
      "storage_status__service", "git_status__service", "types_status__service",
      "index_status__service", "server_status_service",
      "initialize_default_types", "ensure_root_issue_exists",
      "apply_root", "store_root_path">>

\* the statements of setup_services, in source order
setup_services_body ==
    <<"resolve", "select_backend",
      "memory_fs", "path_handler", "graph_repository",
      "type_service", "node_service", "link_service", "comments_service",
      "root_selection_service", "root_issue_service", "issue_children_service",
      "storage_status__service", "git_status__service", "types_status__service",
      "index_status__service", "server_status_service",
      "initialize_default_types", "ensure_root_issue_exists",
      "apply_root", "store_root_path">>

\* the constructor call assigned to self.<f>, with the arguments it is given
Construct(f) ==
    CASE f = "memory_fs" ->
           [cls |-> "Memory_FS", storage_fs |-> locals.storage_fs]
      [] f = "path_handler" ->
           [cls |-> "Path__Handler__Graph_Node", base_path |-> locals.path_base]
      [] f = "graph_repository" ->
           [cls |-> "Graph__Repository", memory_fs |-> fields["memory_fs"],
            path_handler |-> fields["path_handler"]]
      [] f = "type_service" ->
           [cls |-> "Type__Service", repository |-> fields["graph_repository"]]
      [] f = "node_service" ->
           [cls |-> "Node__Service", repository |-> fields["graph_repository"]]
      [] f = "link_service" ->
           [cls |-> "Link__Service", repository |-> fields["graph_repository"]]
      [] f = "comments_service" ->
           [cls |-> "Comments__Service", repository |-> fields["graph_repository"]]
      [] f = "root_selection_service" ->
           [cls |-> "Root__Selection__Service", repository |-> fields["graph_repository"],
            path_handler |-> fields["path_handler"]]
      [] f = "root_issue_service" ->
           [cls |-> "Root__Issue__Service", repository |-> fields["graph_repository"],
            path_handler |-> fields["path_handler"]]
      [] f = "issue_children_service" ->
           [cls |-> "Issue__Children__Service", repository |-> fields["graph_repository"],
            path_handler |-> fields["path_handler"]]
      [] f = "storage_status__service" ->
           [cls |-> "Storage__Status__Service", storage_fs |-> locals.storage_fs]
      [] f = "git_status__service" ->
           [cls |-> "Git__Status__Service"]
      [] f = "types_status__service" ->
           [cls |-> "Types__Status__Service", type_service |-> fields["type_service"]]
      [] f = "index_status__service" ->
           [cls |-> "Index__Status__Service", type_service |-> fields["type_service"],
            repository |-> fields["graph_repository"]]
      [] f = "server_status_service" ->
           [cls |-> "Server__Status__Service",
            storage_service |-> fields["storage_status__service"],
            git_service     |-> fields["git_status__service"],
            types_service   |-> fields["types_status__service"],
            index_service   |-> fields["index_status__service"]]

NoLocals == [use_memory |-> FALSE, issues_path |-> None, root_path |-> None,
             storage_fs |-> Null, path_base |-> None]

\* ------------------------------------------------------------------ collaborators

\* the storage object a service reaches through its repository
well_formed(svc) ==
    /\ svc # Null
    /\ svc.repository # Null
    /\ svc.repository.memory_fs # Null
    /\ svc.repository.memory_fs.storage_fs # Null

storage_of(svc) == svc.repository.memory_fs.storage_fs

read_store(storage_fs) ==
    IF storage_fs.cls = "Storage_FS__Memory" THEN heap ELSE disk[storage_fs.root_path]

\* Type__Service.initialize_default_types: writes the default types unless present
initialize_default_types(store) ==
    IF store.default_types = 0 THEN [store EXCEPT !.default_types = 1] ELSE store

\* a root issue service that creates a root issue at every call
ensure_root_issue_exists_unconditional(store) ==
    [store EXCEPT !.root_issues = @ + 1]

\* Root__Issue__Service.ensure_root_issue_exists: creates the root issue unless present
ensure_root_issue_exists(store) ==
    IF store.root_issues = 0 THEN [store EXCEPT !.root_issues = 1] ELSE store

\* does the path resolve to an existing node of the store
node_exists(store, path) ==
    \/ path \in store.nodes
    \/ (path = S_repo /\ store.root_issues > 0)

\* the ways Root__Selection__Service.set_current_root ends for a path
set_current_root_outcomes(store, path) ==
    IF node_exists(store, path) THEN {"ok"} ELSE {"failed", "raised"}

\* ------------------------------------------------------------------ values

IN_MEMORY_VALUES == {S_empty, S_false, S_zero, S_no, S_off, S_FALSE, S_False, S_No,
                     S_oFF, S_true, S_one, S_maybe, S_fals, S_sp_no}
PATH_VALUES      == {S_empty, S_tmp_x, S_data}
ROOT_VALUES      == {S_empty, S_proj, S_ghost, S_repo}

INSTANCE_ISSUES_PATHS == {DEFAULT__ISSUES_PATH, S_data}
INSTANCE_ROOT_PATHS   == {S_empty, S_proj, S_ghost}

DISK_ROOTS == INSTANCE_ISSUES_PATHS \cup (PATH_VALUES \ {S_empty})

ENV_NAMES == {ENV_VAR__ISSUES__IN_MEMORY, ENV_VAR__ISSUES__PATH, ENV_VAR__ISSUES__ROOT_PATH}

ENV_VALUES(name) ==
    CASE name = ENV_VAR__ISSUES__IN_MEMORY -> IN_MEMORY_VALUES
      [] name = ENV_VAR__ISSUES__PATH      -> PATH_VALUES
      [] name = ENV_VAR__ISSUES__ROOT_PATH -> ROOT_VALUES

\* every environment: any subset of the three variables set, each to any value
ENVIRONMENTS ==
    UNION {{e \in [names -> IN_MEMORY_VALUES \cup PATH_VALUES \cup ROOT_VALUES] :
              \A n \in names : e[n] \in ENV_VALUES(n)} : names \in SUBSET ENV_NAMES}

NoRoutes == [g \in {} |-> Null]
NoStatic == [mounted |-> FALSE, mount_path |-> None, mount_name |-> None,
             redirect_path |-> None, redirect_url |-> None]
NoConfig == [name |-> "", version |-> "", description |-> ""]

\* ------------------------------------------------------------------ the application

\* the object after construction: the class defaults overridden by the arguments
Constructed(args) ==
    /\ run_in_memory = args.run_in_memory
    /\ issues_path   = args.issues_path
    /\ root_path     = args.root_path
    /\ fields        = [f \in FieldNames |-> Null]

Init ==
    /\ env \in ENVIRONMENTS
    /\ ctor \in [run_in_memory : BOOLEAN,
                 issues_path   : INSTANCE_ISSUES_PATHS,
                 root_path     : INSTANCE_ROOT_PATHS]
    /\ Constructed(ctor)
    /\ locals = NoLocals
    /\ pc = [at |-> "new", idx |-> 0, pending |-> {}]
    /\ disk \in {[r \in DISK_ROOTS |-> EmptyStore], [r \in DISK_ROOTS |-> UsedStore]}
    /\ heap = EmptyStore
    /\ current_root = None
    /\ calls = <<>>
    /\ routes = NoRoutes
    /\ static = NoStatic
    /\ config = NoConfig
    /\ response = None
    /\ runs = 1

At(stmt) == pc.at = "setup_services" /\ setup_services_body[pc.idx] = stmt

\* the statement after the current one; after the last, setup goes on to super().setup()
Advance ==
    pc' = IF pc.idx < Len(setup_services_body)
          THEN [pc EXCEPT !.idx = @ + 1]
          ELSE [at |-> "super_setup", idx |-> 0,
                pending |-> {"setup_routes", "setup_static_routes"}]

\* an exception leaves setup_services and setup
Raise == pc' = [at |-> "aborted", idx |-> pc.idx, pending |-> {}]

\* setup calling super().setup() without setup_services before it
Setup_without_services ==
    /\ pc.at = "new"
    /\ config' = [name |-> "FAST_API__TITLE", version |-> "version__issues_fs_service_ui",
                  description |-> "FAST_API__DESCRIPTION"]
    /\ pc' = [at |-> "super_setup", idx |-> 0,
              pending |-> {"setup_routes", "setup_static_routes"}]
    /\ UNCHANGED <<env, ctor, run_in_memory, issues_path, root_path, fields, locals,
                   disk, heap, current_root, calls, routes, static, response, runs>>

\* setup: the configuration, then setup_services
Setup ==
    /\ pc.at = "new"
    /\ config' = [name |-> "FAST_API__TITLE", version |-> "version__issues_fs_service_ui",
                  description |-> "FAST_API__DESCRIPTION"]
    /\ pc' = [at |-> "setup_services", idx |-> 1, pending |-> {}]
    /\ UNCHANGED <<env, ctor, run_in_memory, issues_path, root_path, fields, locals,
                   disk, heap, current_root, calls, routes, static, response, runs>>

\* use_memory, issues_path, root_path = the three resolvers
Resolve ==
    /\ At("resolve")
    /\ locals' = [locals EXCEPT !.use_memory  = resolve_storage_mode,
                                !.issues_path = resolve_issues_path,
                                !.root_path   = resolve_root_path]
    /\ Advance
    /\ UNCHANGED <<env, ctor, run_in_memory, issues_path, root_path, fields,
                   disk, heap, current_root, calls, routes, static, config, response, runs>>

\* select_backend giving the disk backend the path prefix of the memory backend
select_backend_prefixed(use_memory, path) ==
    IF use_memory
    THEN [storage_fs |-> Storage_FS__Memory, path_base |-> path,
          run_in_memory |-> run_in_memory]
    ELSE [storage_fs |-> Storage_FS__Local_Disk(path), path_base |-> path,
          run_in_memory |-> FALSE]

\* select_backend with the two branches exchanged
select_backend_inverted(use_memory, path) ==
    IF ~use_memory
    THEN [storage_fs |-> Storage_FS__Memory, path_base |-> path,
          run_in_memory |-> run_in_memory]
    ELSE [storage_fs |-> Storage_FS__Local_Disk(path), path_base |-> S_empty,
          run_in_memory |-> FALSE]

\* select_backend without the assignment self.run_in_memory = False
select_backend_flag_kept(use_memory, path) ==
    IF use_memory
    THEN [storage_fs |-> Storage_FS__Memory, path_base |-> path,
          run_in_memory |-> run_in_memory]
    ELSE [storage_fs |-> Storage_FS__Local_Disk(path), path_base |-> S_empty,
          run_in_memory |-> run_in_memory]

\* the backend, the path convention and the flag chosen for use_memory
select_backend(use_memory, path) ==
    IF use_memory
    THEN [storage_fs |-> Storage_FS__Memory, path_base |-> path,
          run_in_memory |-> run_in_memory]
    ELSE [storage_fs |-> Storage_FS__Local_Disk(path), path_base |-> S_empty,
          run_in_memory |-> FALSE]

SelectBackend ==
    /\ At("select_backend")
    /\ LET sel == select_backend(locals.use_memory, locals.issues_path)
       IN  /\ locals' = [locals EXCEPT !.storage_fs = sel.storage_fs,
                                       !.path_base  = sel.path_base]
           /\ run_in_memory' = sel.run_in_memory
           /\ heap' = IF sel.storage_fs.cls = "Storage_FS__Memory" THEN EmptyStore ELSE heap
    /\ Advance
    /\ UNCHANGED <<env, ctor, issues_path, root_path, fields,
                   disk, current_root, calls, routes, static, config, response, runs>>

\* self.<f> = <constructor>(...)
ConstructService ==
    /\ \E f \in FieldNames :
         /\ At(f)
         /\ fields' = [fields EXCEPT ![f] = Construct(f)]
    /\ Advance
    /\ UNCHANGED <<env, ctor, run_in_memory, issues_path, root_path, locals,
                   disk, heap, current_root, calls, routes, static, config, response, runs>>

\* the store of a storage object replaced by new contents
write_store(storage_fs, store) ==
    IF storage_fs.cls = "Storage_FS__Memory"
    THEN heap' = store /\ UNCHANGED disk
    ELSE disk' = [disk EXCEPT ![storage_fs.root_path] = store] /\ UNCHANGED heap

\* self.type_service.initialize_default_types()
InitializeDefaultTypes ==
    /\ At("initialize_default_types")
    /\ LET svc == fields["type_service"]
       IN  IF well_formed(svc)
           THEN /\ write_store(storage_of(svc),
                               initialize_default_types(read_store(storage_of(svc))))
                /\ calls' = Append(calls, [op |-> "initialize_default_types",
                                           arg |-> None, result |-> "ok"])
                /\ Advance
           ELSE /\ Raise
                /\ UNCHANGED <<disk, heap, calls>>
    /\ UNCHANGED <<env, ctor, run_in_memory, issues_path, root_path, fields, locals,
                   current_root, routes, static, config, response, runs>>

\* self.root_issue_service.ensure_root_issue_exists()
EnsureRootIssueExists ==
    /\ At("ensure_root_issue_exists")
    /\ LET svc == fields["root_issue_service"]
       IN  IF well_formed(svc)
           THEN /\ write_store(storage_of(svc),
                               ensure_root_issue_exists(read_store(storage_of(svc))))
                /\ calls' = Append(calls, [op |-> "ensure_root_issue_exists",
                                           arg |-> None, result |-> "ok"])
                /\ Advance
           ELSE /\ Raise
                /\ UNCHANGED <<disk, heap, calls>>
    /\ UNCHANGED <<env, ctor, run_in_memory, issues_path, root_path, fields, locals,
                   current_root, routes, static, config, response, runs>>

\* the test of "if root_path:" replaced by "if root_path is not None:"
should_apply_root_not_none(path) == path # None

\* if root_path:
should_apply_root(path) == truthy(path)

\* if root_path: self.root_selection_service.set_current_root(request(path=root_path))
\* whose return value is not used
ApplyRoot ==
    /\ At("apply_root")
    /\ IF should_apply_root(locals.root_path)
       THEN LET svc == fields["root_selection_service"]
            IN  IF well_formed(svc)
                THEN \E outcome \in set_current_root_outcomes(read_store(storage_of(svc)),
                                                              locals.root_path) :
                       /\ calls' = Append(calls, [op |-> "set_current_root",
                                                  arg |-> locals.root_path,
                                                  result |-> outcome])
                       /\ current_root' = IF outcome = "ok" THEN locals.root_path
                                          ELSE current_root
                       /\ IF outcome = "raised" THEN Raise ELSE Advance
                ELSE /\ Raise
                     /\ UNCHANGED <<calls, current_root>>
       ELSE /\ Advance
            /\ UNCHANGED <<calls, current_root>>
    /\ UNCHANGED <<env, ctor, run_in_memory, issues_path, root_path, fields, locals,
                   disk, heap, routes, static, config, response, runs>>

\* the end of setup_services writing the resolved issues path back as well
StoreRootPath_and_issues_path ==
    /\ At("store_root_path")
    /\ root_path' = locals.root_path
    /\ issues_path' = locals.issues_path
    /\ Advance
    /\ UNCHANGED <<env, ctor, run_in_memory, fields, locals,
                   disk, heap, current_root, calls, routes, static, config, response, runs>>

\* self.root_path = root_path
StoreRootPath ==
    /\ At("store_root_path")
    /\ root_path' = locals.root_path
    /\ Advance
    /\ UNCHANGED <<env, ctor, run_in_memory, issues_path, fields, locals,
                   disk, heap, current_root, calls, routes, static, config, response, runs>>

\* ------------------------------------------------------------------ routes

NoService == [cls |-> "no service"]

\* add_routes(<class>, service = self.<attribute>), in source order
ROUTE_BINDINGS ==
    <<[routes |-> "Routes__Links",    service |-> "link_service"],
      [routes |-> "Routes__Nodes",    service |-> "node_service"],
      [routes |-> "Routes__Types",    service |-> "type_service"],
      [routes |-> "Routes__Server",   service |-> "server_status_service"],
      [routes |-> "Routes__Comments", service |-> "comments_service"],
      [routes |-> "Routes__Roots",    service |-> "root_selection_service"],
      [routes |-> "Routes__Issues",   service |-> "issue_children_service"]>>

SERVICE_ROUTES == {ROUTE_BINDINGS[i].routes : i \in 1..Len(ROUTE_BINDINGS)}
PLAIN_ROUTES   == {"Routes__Info", "Routes__Set_Cookie"}

bound_field(group) ==
    ROUTE_BINDINGS[CHOOSE i \in 1..Len(ROUTE_BINDINGS) :
                     ROUTE_BINDINGS[i].routes = group].service

\* a step of super().setup() is done; when none is left the application serves
Finish(step) ==
    pc' = IF pc.pending = {step}
          THEN [at |-> "running", idx |-> 0, pending |-> {}]
          ELSE [pc EXCEPT !.pending = @ \ {step}]

SetupRoutes ==
    /\ pc.at = "super_setup"
    /\ "setup_routes" \in pc.pending
    /\ routes' = [g \in SERVICE_ROUTES \cup PLAIN_ROUTES |->
                    IF g \in SERVICE_ROUTES THEN fields[bound_field(g)] ELSE NoService]
    /\ Finish("setup_routes")
    /\ UNCHANGED <<env, ctor, run_in_memory, issues_path, root_path, fields, locals,
                   disk, heap, current_root, calls, static, config, response, runs>>

S_slash == <<"/">>
S_html  == <<".","h","t","m","l">>

\* the redirect target with the two version segments exchanged
path_latest_version_swapped(path_name, major_version, latest_version, start_page) ==
    S_slash \o path_name \o S_slash \o latest_version \o S_slash \o major_version
            \o S_slash \o start_page \o S_html

\* f"/{path_name}/{major_version}/{latest_version}/{start_page}.html"
path_latest_version(path_name, major_version, latest_version, start_page) ==
    S_slash \o path_name \o S_slash \o major_version \o S_slash \o latest_version
            \o S_slash \o start_page \o S_html

SetupStaticRoutes ==
    /\ pc.at = "super_setup"
    /\ "setup_static_routes" \in pc.pending
    /\ static' = [mounted       |-> TRUE,
                  mount_path    |-> S_slash \o UI__CONSOLE__ROUTE__CONSOLE,
                  mount_name    |-> UI__CONSOLE__ROUTE__CONSOLE,
                  redirect_path |-> S_slash \o UI__CONSOLE__ROUTE__CONSOLE,
                  redirect_url  |-> path_latest_version(UI__CONSOLE__ROUTE__CONSOLE,
                                                        UI__CONSOLE__MAJOR__VERSION,
                                                        UI__CONSOLE__LATEST__VERSION,
                                                        UI__CONSOLE__ROUTE__START_PAGE)]
    /\ Finish("setup_static_routes")
    /\ UNCHANGED <<env, ctor, run_in_memory, issues_path, root_path, fields, locals,
                   disk, heap, current_root, calls, routes, config, response, runs>>

\* redirect_to_latest: RedirectResponse(url = path_latest_version)
redirect_to_latest ==
    /\ pc.at = "running"
    /\ response' = static.redirect_url
    /\ UNCHANGED <<env, ctor, run_in_memory, issues_path, root_path, fields, locals, pc,
                   disk, heap, current_root, calls, routes, static, config, runs>>

\* the process is started again: a new application object, the same environment,
\* the same arguments and the same disk
NewApplication ==
    /\ pc.at \in {"running", "aborted"}
    /\ runs < MaxRuns
    /\ runs' = runs + 1
    /\ run_in_memory' = ctor.run_in_memory
    /\ issues_path'   = ctor.issues_path
    /\ root_path'     = ctor.root_path
    /\ fields'        = [f \in FieldNames |-> Null]
    /\ locals' = NoLocals
    /\ pc' = [at |-> "new", idx |-> 0, pending |-> {}]
    /\ heap' = EmptyStore
    /\ current_root' = None
    /\ calls' = <<>>
    /\ routes' = NoRoutes
    /\ static' = NoStatic
    /\ config' = NoConfig
    /\ response' = None
    /\ UNCHANGED <<env, ctor, disk>>

Next ==
    \/ Setup
    \/ Resolve
    \/ SelectBackend
    \/ ConstructService
    \/ InitializeDefaultTypes
    \/ EnsureRootIssueExists
    \/ ApplyRoot
    \/ StoreRootPath
    \/ SetupRoutes
    \/ SetupStaticRoutes
    \/ redirect_to_latest
    \/ NewApplication

Spec == Init /\ [][Next]_vars

TypeOK ==
    /\ run_in_memory \in BOOLEAN
    /\ runs \in 1..MaxRuns
    /\ pc.at \in {"new", "setup_services", "super_setup", "running", "aborted"}

\* ------------------------------------------------------------------ properties

StmtIndex(stmt) ==
    CHOOSE i \in 1..Len(setup_services_body) : setup_services_body[i] = stmt

\* the statement has been executed by the setup in progress or finished
Done(stmt) ==
    \/ pc.at \in {"super_setup", "running"}
    \/ (pc.at \in {"setup_services", "aborted"} /\ pc.idx > StmtIndex(stmt))

IsSet(name) == name \in DOMAIN env

\* the spellings of a character in either letter case
any_case(c) ==
    CASE c = "f" -> {"f", "F"} [] c = "a" -> {"a", "A"} [] c = "l" -> {"l", "L"}
      [] c = "s" -> {"s", "S"} [] c = "e" -> {"e", "E"} [] c = "n" -> {"n", "N"}
      [] c = "o" -> {"o", "O"} [] OTHER -> {c}

spelled(v, token) ==
    Len(v) = Len(token) /\ \A i \in 1..Len(token) : v[i] \in any_case(token[i])

\* 'false', '0', 'no' or 'off' in any letter case
is_falsy_token(v) == \E t \in {S_false, S_zero, S_no, S_off} : spelled(v, t)

\* (C1) resolve_storage_mode returns False exactly when ISSUES__IN_MEMORY is set
\* to 'false', '0', 'no' or 'off' in any letter case, True when it is set to any
\* other value, and the instance's run_in_memory when it is unset; the value
\* setup_services resolved is the one for the instance default.
C1_StorageMode ==
    /\ resolve_storage_mode =
         IF IsSet(ENV_VAR__ISSUES__IN_MEMORY)
         THEN ~is_falsy_token(env[ENV_VAR__ISSUES__IN_MEMORY])
         ELSE run_in_memory
    /\ Done("resolve") =>
         locals.use_memory =
           IF IsSet(ENV_VAR__ISSUES__IN_MEMORY)
           THEN ~is_falsy_token(env[ENV_VAR__ISSUES__IN_MEMORY])
           ELSE ctor.run_in_memory

C1_Witness ==
    /\ Done("resolve")
    /\ IsSet(ENV_VAR__ISSUES__IN_MEMORY)
    /\ env[ENV_VAR__ISSUES__IN_MEMORY] = S_oFF
    /\ ctor.run_in_memory
    /\ ~locals.use_memory

Backend == locals.storage_fs.cls

\* (C2, as stated) a falsy ISSUES__IN_MEMORY selects the disk backend; any other
\* value, and the absence of the variable, selects the memory backend whatever
\* the instance's run_in_memory.
C2_AbsentMeansMemory ==
    Done("select_backend") =>
        Backend = IF IsSet(ENV_VAR__ISSUES__IN_MEMORY)
                     /\ is_falsy_token(env[ENV_VAR__ISSUES__IN_MEMORY])
                  THEN "Storage_FS__Local_Disk"
                  ELSE "Storage_FS__Memory"

\* (C2, amended) a falsy ISSUES__IN_MEMORY selects the disk backend and any other
\* value the memory backend; when the variable is absent the instance's
\* run_in_memory decides: memory when True, disk when False.
C2_BackendSelection ==
    Done("select_backend") =>
        Backend = IF IsSet(ENV_VAR__ISSUES__IN_MEMORY)
                  THEN IF is_falsy_token(env[ENV_VAR__ISSUES__IN_MEMORY])
                       THEN "Storage_FS__Local_Disk" ELSE "Storage_FS__Memory"
                  ELSE IF ctor.run_in_memory
                       THEN "Storage_FS__Memory" ELSE "Storage_FS__Local_Disk"

C2_Witness ==
    /\ Done("select_backend")
    /\ ~IsSet(ENV_VAR__ISSUES__IN_MEMORY)
    /\ ~ctor.run_in_memory
    /\ Backend = "Storage_FS__Local_Disk"

\* a boolean word the storage mode recognises, in any letter case
is_truthy_token(v) == \E t \in {S_true, S_one} : spelled(v, t)

\* present, and empty or not a boolean word
unusable_flag(name) ==
    /\ IsSet(name)
    /\ \/ env[name] = S_empty
       \/ (~is_falsy_token(env[name]) /\ ~is_truthy_token(env[name]))

unusable_path(name) == IsSet(name) /\ env[name] = S_empty

\* (C3, as stated) a variable that is present but empty or malformed is treated
\* as unset: each resolver returns the instance-level default.
C3_UnusableIsUnset ==
    Done("resolve") =>
        /\ unusable_flag(ENV_VAR__ISSUES__IN_MEMORY) =>
             locals.use_memory = ctor.run_in_memory
        /\ unusable_path(ENV_VAR__ISSUES__PATH) =>
             locals.issues_path = ctor.issues_path
        /\ unusable_path(ENV_VAR__ISSUES__ROOT_PATH) =>
             locals.root_path = ctor.root_path

\* (C3, amended) an empty ISSUES__PATH or ISSUES__ROOT_PATH is treated as unset
\* and the instance value is returned; a present ISSUES__IN_MEMORY is never
\* treated as unset: an empty or unrecognised value resolves to True whatever
\* the instance's run_in_memory.
C3_EmptyOrUnrecognised ==
    Done("resolve") =>
        /\ unusable_flag(ENV_VAR__ISSUES__IN_MEMORY) => locals.use_memory = TRUE
        /\ unusable_path(ENV_VAR__ISSUES__PATH) =>
             locals.issues_path = ctor.issues_path
        /\ unusable_path(ENV_VAR__ISSUES__ROOT_PATH) =>
             locals.root_path = ctor.root_path

C3_Witness ==
    /\ Done("resolve")
    /\ unusable_flag(ENV_VAR__ISSUES__IN_MEMORY)
    /\ env[ENV_VAR__ISSUES__IN_MEMORY] = S_empty
    /\ unusable_path(ENV_VAR__ISSUES__PATH)
    /\ unusable_path(ENV_VAR__ISSUES__ROOT_PATH)
    /\ ~ctor.run_in_memory
    /\ locals.use_memory
    /\ locals.root_path = S_proj

nonempty(name) == IsSet(name) /\ Len(env[name]) > 0

\* (C4) resolve_issues_path returns ISSUES__PATH when set and non-empty, else the
\* instance issues_path; resolve_root_path returns ISSUES__ROOT_PATH when set and
\* non-empty, else the instance root_path when non-empty, else ''.
C4_PathPrecedence ==
    Done("resolve") =>
        /\ locals.issues_path = IF nonempty(ENV_VAR__ISSUES__PATH)
                                THEN env[ENV_VAR__ISSUES__PATH]
                                ELSE ctor.issues_path
        /\ locals.root_path = IF nonempty(ENV_VAR__ISSUES__ROOT_PATH)
                              THEN env[ENV_VAR__ISSUES__ROOT_PATH]
                              ELSE IF Len(ctor.root_path) > 0 THEN ctor.root_path
                              ELSE S_empty

C4_Witness ==
    /\ Done("resolve")
    /\ IsSet(ENV_VAR__ISSUES__PATH) /\ env[ENV_VAR__ISSUES__PATH] = S_empty
    /\ locals.issues_path = S_data
    /\ nonempty(ENV_VAR__ISSUES__ROOT_PATH)
    /\ ctor.root_path = S_proj
    /\ locals.root_path = S_ghost

\* the attributes whose constructor is given the storage backend
BACKEND_HOLDERS == {"memory_fs", "storage_status__service"}

\* (C5) one storage backend is built: the memory backend with a path handler on
\* base_path = issues_path when use_memory, the disk backend rooted at
\* issues_path with a path handler on base_path = '' otherwise.
C5_BackendAndPathBase ==
    /\ Done("path_handler") =>
         fields["path_handler"].base_path =
           IF locals.use_memory THEN locals.issues_path ELSE S_empty
    /\ \A f \in BACKEND_HOLDERS : Done(f) =>
         fields[f].storage_fs =
           IF locals.use_memory
           THEN [cls |-> "Storage_FS__Memory"]
           ELSE [cls |-> "Storage_FS__Local_Disk", root_path |-> locals.issues_path]

C5_Witness ==
    /\ pc.at = "running"
    /\ ~locals.use_memory
    /\ locals.issues_path = S_tmp_x
    /\ fields["path_handler"].base_path = S_empty
    /\ fields["memory_fs"].storage_fs.root_path = S_tmp_x

\* the positions in calls of the calls of an operation
CallsOf(op) == {i \in 1..Len(calls) : calls[i].op = op}

SetupServicesReturned == pc.at \in {"super_setup", "running"}

\* (C6) initialize_default_types completes before ensure_root_issue_exists
\* starts, which completes before any set_current_root call; a setup_services
\* that returns has run each of the first two exactly once, in that order.
C6_InitOrder ==
    /\ \A j \in CallsOf("ensure_root_issue_exists") :
         \E i \in CallsOf("initialize_default_types") : i < j
    /\ \A k \in CallsOf("set_current_root") :
         \E j \in CallsOf("ensure_root_issue_exists") : j < k
    /\ SetupServicesReturned =>
         /\ CallsOf("initialize_default_types")  = {1}
         /\ CallsOf("ensure_root_issue_exists") = {2}

C6_Witness ==
    /\ pc.at = "running"
    /\ Len(calls) = 3
    /\ calls[1].op = "initialize_default_types"
    /\ calls[2].op = "ensure_root_issue_exists"
    /\ calls[3].op = "set_current_root"

SetCurrentRootFailed ==
    \E i \in CallsOf("set_current_root") : calls[i].result # "ok"

\* (C7) when set_current_root fails for the configured root path, setup does not
\* return normally: setup_services is left at that call, setup_routes is never
\* run and the route layer holds no service.
C7_FailedRootAborts ==
    SetCurrentRootFailed =>
        /\ ~SetupServicesReturned
        /\ routes = NoRoutes

\* (C8) set_current_root is called exactly when the resolved root path is
\* non-empty, at most once per setup and with that path; when the path names an
\* existing node, after setup the current root and the root_path attribute are
\* that path; when the resolved path is empty no root is applied.
C8_ApplyRoot ==
    /\ Cardinality(CallsOf("set_current_root")) <= 1
    /\ \A i \in CallsOf("set_current_root") :
         /\ calls[i].arg = locals.root_path
         /\ Len(locals.root_path) > 0
    /\ Done("apply_root") =>
         (CallsOf("set_current_root") # {} <=> Len(locals.root_path) > 0)
    /\ SetupServicesReturned =>
         /\ root_path = locals.root_path
         /\ IF Len(locals.root_path) = 0
            THEN current_root = None
            ELSE node_exists(read_store(locals.storage_fs), locals.root_path)
                   => current_root = locals.root_path

C8_Witness ==
    /\ pc.at = "running"
    /\ ~nonempty(ENV_VAR__ISSUES__ROOT_PATH)
    /\ ctor.root_path = S_proj
    /\ Backend = "Storage_FS__Local_Disk"
    /\ current_root = S_proj
    /\ root_path = S_proj
    /\ CallsOf("set_current_root") = {3}

S_console      == <<"/","c","o","n","s","o","l","e">>
S_console_page == <<"/","c","o","n","s","o","l","e","/","v","0","/","v","0",".","1",
                    "/","v","0",".","1",".","7","/","i","n","d","e","x",".","h","t","m","l">>

\* (C9) the handler registered at '/console' redirects to
\* '/console/v0/v0.1/v0.1.7/index.html', the static directory is mounted under
\* '/console', and every request gets that same target.
C9_ConsoleRedirect ==
    /\ static.mounted =>
         /\ static.mount_path    = S_console
         /\ static.redirect_path = S_console
         /\ static.redirect_url  = S_console_page
    /\ pc.at = "running" => static.mounted
    /\ response # None => response = S_console_page

C9_Witness ==
    /\ pc.at = "running"
    /\ response = S_console_page

\* (C10) after any number of setup_services runs against the same storage with
\* the same configuration, the storage in use holds exactly one root issue and
\* the default types once, and no storage ever holds either twice.
C10_DefaultDataOnce ==
    /\ \A r \in DISK_ROOTS : disk[r].root_issues <= 1 /\ disk[r].default_types <= 1
    /\ heap.root_issues <= 1 /\ heap.default_types <= 1
    /\ Done("ensure_root_issue_exists") =>
         /\ read_store(locals.storage_fs).root_issues   = 1
         /\ read_store(locals.storage_fs).default_types = 1

C10_Witness ==
    /\ runs = 2
    /\ pc.at = "running"
    /\ Backend = "Storage_FS__Local_Disk"
    /\ disk[locals.issues_path] = [default_types |-> 1, root_issues |-> 1, nodes |-> {}]

\* (C11) once setup_services has selected the disk backend, for a falsy
\* ISSUES__IN_MEMORY or for an instance default of False with the variable unset,
\* run_in_memory is False; until the backend is selected, the resolvers included,
\* run_in_memory is the value the instance was built with.
C11_DiskClearsFlag ==
    /\ (Done("select_backend") /\ Backend = "Storage_FS__Local_Disk")
         => run_in_memory = FALSE
    /\ ~Done("select_backend") => run_in_memory = ctor.run_in_memory

C11_Witness ==
    /\ SetupServicesReturned
    /\ IsSet(ENV_VAR__ISSUES__IN_MEMORY)
    /\ env[ENV_VAR__ISSUES__IN_MEMORY] = S_FALSE
    /\ ctor.run_in_memory
    /\ Backend = "Storage_FS__Local_Disk"
    /\ ~run_in_memory

\* the services a service is built from: constructor argument -> attribute
DEPENDS_ON(f) ==
    CASE f = "graph_repository" ->
           {<<"memory_fs", "memory_fs">>, <<"path_handler", "path_handler">>}
      [] f \in {"type_service", "node_service", "link_service", "comments_service"} ->
           {<<"repository", "graph_repository">>}
      [] f \in {"root_selection_service", "root_issue_service",
                "issue_children_service"} ->
           {<<"repository", "graph_repository">>, <<"path_handler", "path_handler">>}
      [] f = "types_status__service" ->
           {<<"type_service", "type_service">>}
      [] f = "index_status__service" ->
           {<<"type_service", "type_service">>, <<"repository", "graph_repository">>}
      [] f = "server_status_service" ->
           {<<"storage_service", "storage_status__service">>,
            <<"git_service",     "git_status__service">>,
            <<"types_service",   "types_status__service">>,
            <<"index_service",   "index_status__service">>}
      [] OTHER -> {}

\* (C12) no service is constructed before its dependencies: every constructed
\* service was given, for each dependency, the constructed object that the
\* attribute of that dependency holds, and the holders of the storage backend
\* were given a backend.
C12_DependenciesFirst ==
    \A f \in FieldNames : fields[f] # Null =>
        /\ \A dep \in DEPENDS_ON(f) :
             /\ fields[dep[2]] # Null
             /\ fields[f][dep[1]] # Null
             /\ fields[f][dep[1]] = fields[dep[2]]
        /\ f \in BACKEND_HOLDERS =>
             /\ fields[f].storage_fs # Null
             /\ fields[f].storage_fs = locals.storage_fs
        /\ f = "path_handler" => fields[f].base_path # None

C12_Witness ==
    /\ Done("server_status_service")
    /\ fields["server_status_service"].index_service.repository.memory_fs.storage_fs
         = Storage_FS__Memory
    /\ fields["root_issue_service"].path_handler.base_path = S_issues

\* the class of the service each route group is to be backed by
ROUTE_SERVICE_CLASS ==
    [Routes__Links    |-> "Link__Service",
     Routes__Nodes    |-> "Node__Service",
     Routes__Types    |-> "Type__Service",
     Routes__Server   |-> "Server__Status__Service",
     Routes__Comments |-> "Comments__Service",
     Routes__Roots    |-> "Root__Selection__Service",
     Routes__Issues   |-> "Issue__Children__Service"]

\* (C13) routes are mounted and the static console registered only after
\* setup_services has run all its statements, the two default-data calls
\* included, and each of the seven route groups is bound to the constructed,
\* non-null service of its class.
C13_RoutesAfterServices ==
    /\ (routes # NoRoutes \/ static.mounted) =>
         /\ \A i \in 1..Len(setup_services_body) : Done(setup_services_body[i])
         /\ \A f \in FieldNames : fields[f] # Null
         /\ CallsOf("initialize_default_types") # {}
         /\ CallsOf("ensure_root_issue_exists") # {}
    /\ routes # NoRoutes =>
         \A g \in DOMAIN ROUTE_SERVICE_CLASS :
             /\ routes[g] # Null
             /\ routes[g].cls = ROUTE_SERVICE_CLASS[g]
             /\ \E f \in FieldNames : routes[g] = fields[f]

C13_Witness ==
    /\ pc.at = "running"
    /\ routes # NoRoutes
    /\ static.mounted
    /\ routes["Routes__Server"] = fields["server_status_service"]
    /\ routes["Routes__Roots"].cls = "Root__Selection__Service"

\* (C14) after setup_services, run_in_memory is True whenever the memory backend
\* was selected, also for an instance default of False overridden by a truthy
\* ISSUES__IN_MEMORY: the attribute reports the storage mode in use.
C14_FlagReportsMode ==
    SetupServicesReturned =>
        (run_in_memory <=> Backend = "Storage_FS__Memory")

\* the issues path the storage was set up with: the prefix of the path handler
\* for the memory backend, the root of the disk backend
BuiltPath ==
    IF Backend = "Storage_FS__Memory"
    THEN fields["path_handler"].base_path
    ELSE fields["memory_fs"].storage_fs.root_path

\* ISSUES__PATH is set, non-empty and not the instance's own value
PathOverridden ==
    nonempty(ENV_VAR__ISSUES__PATH) /\ env[ENV_VAR__ISSUES__PATH] # ctor.issues_path

\* (C15) setup_services never changes issues_path and writes the resolved root
\* path into root_path; get_current_root_path returns root_path when non-empty
\* and the instance issues_path otherwise, and the instance issues_path is not
\* the path the storage was set up with whenever ISSUES__PATH overrides it.
C15_IssuesPathNotWrittenBack ==
    /\ issues_path = ctor.issues_path
    /\ get_current_root_path =
         IF Len(root_path) > 0 THEN root_path ELSE ctor.issues_path
    /\ SetupServicesReturned =>
         /\ root_path = locals.root_path
         /\ BuiltPath = locals.issues_path
         /\ PathOverridden =>
              /\ BuiltPath = env[ENV_VAR__ISSUES__PATH]
              /\ issues_path # BuiltPath
              /\ Len(root_path) = 0 => get_current_root_path # BuiltPath
         /\ ~PathOverridden => issues_path = BuiltPath

C15_Witness ==
    /\ pc.at = "running"
    /\ PathOverridden
    /\ root_path = S_empty
    /\ get_current_root_path = S_issues
    /\ BuiltPath = S_tmp_x

====
